---- MODULE Spec2Model ----
(***************************************************************************)
(* mexc-screener: the per-client session service of web_app.py (session    *)
(* registry, request handlers, one screener worker thread per start, the   *)
(* bounded event queue and its SSE consumer, the stale-session sweep) and  *)
(* the cache functions of mexc_rsi_screener.py.                            *)
(*                                                                         *)
(* Threads interleave between statements (CPython switches threads between *)
(* bytecodes), so every handler and the worker are split into steps; one   *)
(* step holds at most one access to the fields running/config/data/        *)
(* last_active of a session, together with the event pushes next to it.    *)
(* Event payloads are abstracted to the event type.                        *)
(***************************************************************************)
EXTENDS Integers, Sequences, FiniteSets, TLC

\* ------------------------------------------------------------ bounds
\* web_app.py:65 builds queue.Queue(maxsize=500); the model runs the same
\* put_nowait with a scaled capacity.
QueueCap == 2
\* session objects ever allocated by get_session
MaxObjs == 2
\* longest end-of-cycle countdown the environment produces, in seconds
MaxCountdown == 1
\* clock advances
MaxTicks == 1
\* requests the service accepts in one run of Spec
MaxRequests == 3
\* requests the service accepts in one run of SpecPair
MaxPairRequests == 2
\* events the producer of SpecQueue offers
MaxPush == 5
\* latest end-of-cycle time of SpecWait, in seconds
MaxNow == 250
\* candles of a series of SpecTrend
CandleCount == 3
\* cycles of main() in one run of SpecCache
MaxCycles == 2
\* candles of a kline response of SpecParse
MaxRows == 2
\* requests of one run of SpecStream
MaxStreamRequests == 3

\* ------------------------------------------------------------ constants
IdleLimit == 1800
SweepPeriod == 300
HeartbeatTimeout == 25
\* s.get("last_active", 0): a session that has no last_active key
NoStamp == 0

SessionIds == {"A", "B"}
ReqSlots == {"r1", "r2"}
WorkerSlots == {"w1", "w2"}

\* None / a falsy config
NoConfig == [Assets |-> << >>, Timeframe |-> 0]
CfgOne == [Assets |-> <<"BTC_USDT">>, Timeframe |-> 15]
CfgTwo == [Assets |-> <<"ETH_USDT">>, Timeframe |-> 60]
Configs == {CfgOne, CfgTwo}

\* time.time() when the service is up: any epoch time is far beyond IdleLimit
BootTime == 2 * IdleLimit

VARIABLES
    sessions,    \* the registry: session id -> session object (0: no entry)
    objs,        \* the session objects ever created (orphans included)
    reqs,        \* request handler threads in flight
    workers,     \* screener_loop threads
    now,         \* time.time()
    nreq,        \* requests accepted so far
    stopSeen,    \* history: workers whose session had running cleared under them
    resetClean,  \* history: objects whose reset returned with no start during or since
    out,         \* history: the queued events the stream yielded (SpecQueue)
    yielded,     \* history: kind of the stream's last yield, flip toggles per yield
    npush,       \* history: events offered to push_event (SpecQueue)
    waited,      \* seconds the consumer's q.get has been blocked (SpecQueue)
    file,        \* DATA_FILE, the persisted cache of the single process
    market_data, \* main(): the cache in memory
    main_timeframe, \* main(): timeframe_mins of the cycle's config
    mpc,         \* main(): position in the cycle
    midx,        \* main(): index of the next symbol
    refreshed_count, \* main(): symbols refreshed in the cycle
    cycle,       \* main(): number of the cycle, the time.time() of its fetches
    cached_asset, \* main(): the entry of the symbol as read before its fetch
    attempts,    \* history: the fetch attempts of the cycle, in order
    computed,    \* history: the entries the indicator computations of the cycle read
    saved,       \* history: the last cycle end called save_market_data
    args,        \* the inputs of the computation under check
    ret          \* its results

hist == <<stopSeen, resetClean>>
calc == <<args, ret>>
mhist == <<cycle, cached_asset, attempts, computed, saved>>
single == <<file, market_data, main_timeframe, mpc, midx, refreshed_count, mhist, calc>>
qhist == <<out, yielded, npush, waited, single>>
vars == <<sessions, objs, reqs, workers, now, nreq, stopSeen, resetClean, out, yielded, npush, waited,
         file, market_data, main_timeframe, mpc, midx, refreshed_count,
         cycle, cached_asset, attempts, computed, saved, args, ret>>

\* no computation under check
NoArgs == [fn |-> "none"]
NoRet == [fn |-> "none"]

\* ------------------------------------------------------------ the cache
Symbols == {"BTC_USDT", "ETH_USDT"}
MainAssets == <<"BTC_USDT", "ETH_USDT">>
Timeframes == {15, 60}

\* A cache entry {last_updated, highs, lows, prices} is told by the candle
\* interval of its series; Absent: the dict has no key for the symbol.
Absent == [present |-> FALSE, candles |-> 0, last_updated |-> 0]
\* an entry found at startup, written before the first cycle
Entry(t) == [present |-> TRUE, candles |-> t, last_updated |-> 0]
\* market_data[symbol] = {"last_updated": now, ...} of a fetch at time now
Fetched(t, now_) == [present |-> TRUE, candles |-> t, last_updated |-> now_]
Entries == {Absent} \cup {Entry(t) : t \in Timeframes}

\* The _metadata of a dict: no _metadata key, _metadata without a timeframe,
\* or _metadata with the timeframe tag.
NoMeta == [key |-> FALSE, tagged |-> FALSE, timeframe |-> 0]
NoTag == [key |-> TRUE, tagged |-> FALSE, timeframe |-> 0]
Tag(t) == [key |-> TRUE, tagged |-> TRUE, timeframe |-> t]
Metas == {NoMeta, NoTag} \cup {Tag(t) : t \in Timeframes}

\* {}
EmptyCache == [meta |-> NoMeta, entries |-> [sym \in Symbols |-> Absent]]

\* DATA_FILE: missing, not loadable as a JSON dict, or a dict
NoFile == [kind |-> "missing", data |-> EmptyCache]
BadFile == [kind |-> "corrupt", data |-> EmptyCache]
DictFile(d) == [kind |-> "dict", data |-> d]

\* cached_timeframe != current_timeframe, where cached_timeframe is
\* data.get("_metadata", {}).get("timeframe"): None when there is no tag
timeframe_changed(data, current_timeframe) ==
    ~(data.meta.tagged /\ data.meta.timeframe = current_timeframe)

\* a load that returns the dict whatever its tag
load_market_data_keeping(f, current_timeframe) ==
    IF f.kind # "dict" THEN EmptyCache ELSE f.data

\* a load that wipes only on a tag that is present and different
load_market_data_untagged(f, current_timeframe) ==
    IF f.kind # "dict"
    THEN EmptyCache
    ELSE IF f.data.meta.tagged /\ f.data.meta.timeframe # current_timeframe
    THEN EmptyCache
    ELSE f.data

\* load_market_data: {} when the file is missing, fails to load, or carries
\* another timeframe tag than current_timeframe; the loaded dict otherwise
load_market_data(f, current_timeframe) ==
    IF f.kind = "missing"
    THEN EmptyCache
    ELSE IF f.kind = "corrupt"
    THEN EmptyCache
    ELSE IF timeframe_changed(f.data, current_timeframe)
    THEN EmptyCache
    ELSE f.data

\* ------------------------------------------------------------ sessions
NewSession ==
    [thread |-> "-", running |-> FALSE, queue |-> << >>, config |-> NoConfig,
     data |-> {}, last_active |-> NoStamp]

IdleReq ==
    [op |-> "idle", pc |-> "idle", session_id |-> "-", config |-> NoConfig, session |-> 0]

NoWorker ==
    [pc |-> "none", session_id |-> "-", session |-> 0, config |-> NoConfig,
     idx |-> 0, results |-> {}, i |-> 0]

\* get_session: the entry of session_id, created when absent.
get_session(reg, os, session_id) ==
    IF reg[session_id] = 0
    THEN [session |-> Len(os) + 1,
          sessions |-> [reg EXCEPT ![session_id] = Len(os) + 1],
          objs |-> Append(os, NewSession)]
    ELSE [session |-> reg[session_id], sessions |-> reg, objs |-> os]

CanGet(session_id) == sessions[session_id] # 0 \/ Len(objs) < MaxObjs

\* a queue that takes the item whatever it holds
put_nowait_unbounded(q, item) == Append(q, item)

\* a queue that makes room by dropping its oldest item
put_nowait_drop_oldest(q, item) ==
    IF Len(q) >= QueueCap THEN Append(Tail(q), item) ELSE Append(q, item)

\* queue.Queue.put_nowait: raises Full, changing nothing, when qsize >= maxsize
put_nowait(q, item) == IF Len(q) >= QueueCap THEN q ELSE Append(q, item)

\* a push that reaches every registered session
push_event_broadcast(reg, os, session_id, event) ==
    [o \in 1..Len(os) |->
        IF \E sid \in DOMAIN reg : reg[sid] = o
        THEN [os[o] EXCEPT !.queue = put_nowait(@, event)]
        ELSE os[o]]

\* push_event: looks the session up in the registry under the lock; no entry,
\* no event; queue.Full is swallowed.
push_event(reg, os, session_id, event) ==
    IF reg[session_id] = 0
    THEN os
    ELSE [os EXCEPT ![reg[session_id]].queue = put_nowait(@, event)]

Live(w) == workers[w].pc # "none"
FreeReq == CHOOSE r \in ReqSlots : reqs[r].op = "idle"
HasFreeReq == \E r \in ReqSlots : reqs[r].op = "idle"
FreeWorker == CHOOSE w \in WorkerSlots : ~Live(w)
HasFreeWorker == \E w \in WorkerSlots : ~Live(w)

At(r, op, pc) == reqs[r].op = op /\ reqs[r].pc = pc
Goto(r, pc) == reqs' = [reqs EXCEPT ![r].pc = pc]
Return(r) == reqs' = [reqs EXCEPT ![r] = IdleReq]

\* the workers that hold session object s
WorkersOn(s) == {w \in WorkerSlots : Live(w) /\ workers[w].session = s}
StartsOn(s) == {r \in ReqSlots : reqs[r].op = "start" /\ reqs[r].session = s}

\* a request arrives and runs its first statement, session = get_session(id)
Accept(op, pc, session_id, config) ==
    /\ HasFreeReq
    /\ nreq' = nreq + 1
    /\ CanGet(session_id)
    /\ LET g == get_session(sessions, objs, session_id) IN
        /\ sessions' = g.sessions
        /\ objs' = g.objs
        /\ reqs' = [reqs EXCEPT ![FreeReq] =
                        [op |-> op, pc |-> pc, session_id |-> session_id,
                         config |-> config, session |-> g.session]]

\* ------------------------------------------------------------ /api/start
\* A body without session_id or config is answered 400 before any state is
\* touched (web_app.py:368), so only requests that carry both are modelled.
StartGet(session_id, config) ==
    /\ Accept("start", "active", session_id, config)
    /\ resetClean' = resetClean \ {get_session(sessions, objs, session_id).session}
    /\ UNCHANGED <<workers, now, stopSeen, qhist>>

StartActive(r) ==
    /\ At(r, "start", "active")
    /\ objs' = [objs EXCEPT ![reqs[r].session].last_active = now]
    /\ Goto(r, "check")
    /\ UNCHANGED <<sessions, workers, now, nreq, hist, qhist>>

\* a start that does not test the flag
StartCheckBlind(r) ==
    /\ At(r, "start", "check")
    /\ Goto(r, "spawn")
    /\ UNCHANGED <<sessions, objs, workers, now, nreq, hist, qhist>>

\* if session["running"]: return already_running
StartCheck(r) ==
    /\ At(r, "start", "check")
    /\ IF objs[reqs[r].session].running THEN Return(r) ELSE Goto(r, "spawn")
    /\ UNCHANGED <<sessions, objs, workers, now, nreq, hist, qhist>>

\* session["config"] = config; session["running"] = True; session["data"] = {};
\* the thread is created, stored and started.  The four statements write fields
\* of one object that no other thread reads in a way that tells the orders
\* apart: another thread's step among them acts as it does before or after.
StartSpawn(r) ==
    /\ At(r, "start", "spawn")
    /\ HasFreeWorker
    /\ objs' = [objs EXCEPT ![reqs[r].session].config = reqs[r].config,
                            ![reqs[r].session].running = TRUE,
                            ![reqs[r].session].data = {},
                            ![reqs[r].session].thread = FreeWorker]
    /\ workers' = [workers EXCEPT ![FreeWorker] =
                      [NoWorker EXCEPT !.pc = "begin", !.session_id = reqs[r].session_id]]
    /\ Return(r)
    /\ resetClean' = resetClean \ {reqs[r].session}
    /\ UNCHANGED <<sessions, now, nreq, stopSeen, qhist>>

\* ------------------------------------------------------------ /api/stop
StopGet(session_id) ==
    /\ Accept("stop", "run", session_id, NoConfig)
    /\ UNCHANGED <<workers, now, hist, qhist>>

StopRun(r) ==
    /\ At(r, "stop", "run")
    /\ objs' = [objs EXCEPT ![reqs[r].session].running = FALSE]
    /\ Goto(r, "active")
    /\ stopSeen' = stopSeen \cup WorkersOn(reqs[r].session)
    /\ UNCHANGED <<sessions, workers, now, nreq, resetClean, qhist>>

StopActive(r) ==
    /\ At(r, "stop", "active")
    /\ objs' = [objs EXCEPT ![reqs[r].session].last_active = now]
    /\ Return(r)
    /\ UNCHANGED <<sessions, workers, now, nreq, hist, qhist>>

\* ------------------------------------------------------------ /api/reset
ResetGet(session_id) ==
    /\ Accept("reset", "run", session_id, NoConfig)
    /\ UNCHANGED <<workers, now, hist, qhist>>

ResetRun(r) ==
    /\ At(r, "reset", "run")
    /\ objs' = [objs EXCEPT ![reqs[r].session].running = FALSE]
    /\ Goto(r, "sleep")
    /\ stopSeen' = stopSeen \cup WorkersOn(reqs[r].session)
    /\ UNCHANGED <<sessions, workers, now, nreq, resetClean, qhist>>

\* after time.sleep(1.5): data cleared, last_active stamped, two events pushed
ResetClear(r) ==
    /\ At(r, "reset", "sleep")
    /\ LET s == reqs[r].session
           cleared == [objs EXCEPT ![s].data = {}, ![s].last_active = now]
       IN /\ objs' = push_event(sessions,
                        push_event(sessions, cleared, reqs[r].session_id, "reset"),
                        reqs[r].session_id, "log_warning")
          /\ resetClean' = IF StartsOn(s) = {} /\ ~objs[s].running
                            THEN resetClean \cup {s} ELSE resetClean
    /\ Return(r)
    /\ UNCHANGED <<sessions, workers, now, nreq, stopSeen, qhist>>

\* ------------------------------------------------------------ /stream
StreamGet(session_id) ==
    /\ Accept("stream", "active", session_id, NoConfig)
    /\ UNCHANGED <<workers, now, hist, qhist>>

\* last_active is stamped; the generator then binds q = session["queue"]
StreamActive(r) ==
    /\ At(r, "stream", "active")
    /\ objs' = [objs EXCEPT ![reqs[r].session].last_active = now]
    /\ Goto(r, "read")
    /\ UNCHANGED <<sessions, workers, now, nreq, hist, qhist>>

\* q.get(timeout=25) returns the head of the queue
q_get(r) ==
    /\ At(r, "stream", "read")
    /\ objs[reqs[r].session].queue # << >>
    /\ objs' = [objs EXCEPT ![reqs[r].session].queue = Tail(@)]
    /\ UNCHANGED <<sessions, reqs, workers, now, nreq>>

\* an Empty raised whatever the queue holds
q_empty_any(r) ==
    /\ At(r, "stream", "read")
    /\ UNCHANGED <<sessions, objs, reqs, workers, now, nreq>>

\* q.get(timeout=25) raises Empty: the queue is empty when the wait runs out
q_empty(r) ==
    /\ At(r, "stream", "read")
    /\ objs[reqs[r].session].queue = << >>
    /\ UNCHANGED <<sessions, objs, reqs, workers, now, nreq>>

StreamRead(r) == q_get(r) /\ UNCHANGED <<hist, qhist>>

StreamHeartbeat(r) == q_empty(r) /\ UNCHANGED <<hist, qhist>>

\* the client goes away: GeneratorExit ends the generator
StreamClose(r) ==
    /\ At(r, "stream", "read")
    /\ Return(r)
    /\ UNCHANGED <<sessions, objs, workers, now, nreq, hist, qhist>>

\* ------------------------------------------------------------ sweep
Stale(s) == ~objs[s].running /\ objs[s].last_active < now - IdleLimit

cleanup_sessions ==
    /\ sessions' = [sid \in SessionIds |->
                      IF sessions[sid] # 0 /\ Stale(sessions[sid]) THEN 0 ELSE sessions[sid]]
    /\ UNCHANGED <<objs, reqs, workers, now, nreq, hist, qhist>>

Tick ==
    /\ now < BootTime + MaxTicks * (IdleLimit + SweepPeriod)
    /\ now' = now + IdleLimit + SweepPeriod
    /\ UNCHANGED <<sessions, objs, reqs, workers, nreq, hist, qhist>>
\* ------------------------------------------------------------ screener_loop
WAt(w, pc) == workers[w].pc = pc
Exit(w) ==
    /\ workers' = [workers EXCEPT ![w] = NoWorker]
    /\ stopSeen' = stopSeen \ {w}

push2(reg, os, session_id, e1, e2) ==
    push_event(reg, push_event(reg, os, session_id, e1), session_id, e2)

\* now_ts // interval_seconds + 1 boundaries, minus now_ts
sleep_seconds(now_ts, timeframe_mins) ==
    LET interval_seconds == timeframe_mins * 60
        next_interval == ((now_ts \div interval_seconds) + 1) * interval_seconds
    IN next_interval - now_ts

\* session = get_session(session_id); status{running: True} and a log are pushed
WorkerBegin(w) ==
    /\ WAt(w, "begin")
    /\ CanGet(workers[w].session_id)
    /\ LET sid == workers[w].session_id
           g == get_session(sessions, objs, sid)
       IN /\ sessions' = g.sessions
          /\ objs' = push2(g.sessions, g.objs, sid, "status_true", "log_success")
          /\ workers' = [workers EXCEPT ![w].session = g.session, ![w].pc = "loop"]
    /\ UNCHANGED <<reqs, now, nreq, hist, qhist>>

\* the for loop over assets is left when no symbol remains
AfterSymbol(config, idx) == IF idx > Len(config.Assets) THEN "cycle_end" ELSE "symbol"

\* while session["running"]: config = session.get("config"); no config: log, break.
\* Leaving the loop pushes status{running: False} and a log, and the thread ends.
WorkerLoop(w) ==
    /\ WAt(w, "loop")
    /\ LET s == workers[w].session
           sid == workers[w].session_id
           stopped == push2(sessions, objs, sid, "status_false", "log_warning")
       IN IF ~objs[s].running
          THEN /\ Exit(w)
               /\ objs' = stopped
          ELSE IF objs[s].config = NoConfig
          THEN /\ Exit(w)
               /\ objs' = push2(sessions, push_event(sessions, objs, sid, "log_error"),
                                sid, "status_false", "log_warning")
          ELSE /\ workers' = [workers EXCEPT ![w].pc = AfterSymbol(objs[s].config, 1),
                                             ![w].config = objs[s].config,
                                             ![w].results = {}, ![w].idx = 1]
               /\ objs' = objs
               /\ UNCHANGED stopSeen
    /\ UNCHANGED <<sessions, reqs, now, nreq, resetClean, qhist>>

\* for symbol in assets: if not session["running"]: return; log "Fetching ..."
WorkerSymbol(w) ==
    /\ WAt(w, "symbol")
    /\ LET s == workers[w].session
           sid == workers[w].session_id
       IN IF ~objs[s].running
          THEN /\ Exit(w)
               /\ objs' = objs
          ELSE /\ workers' = [workers EXCEPT ![w].pc = "fetch"]
               /\ objs' = push_event(sessions, objs, sid, "log_info")
               /\ UNCHANGED stopSeen
    /\ UNCHANGED <<sessions, reqs, now, nreq, resetClean, qhist>>

\* the rate-limit sleep, fetch_kline_data, parse_ohlc, the indicators and the
\* asset_update of one symbol; a failed fetch or parse logs and continues
WorkerFetch(w, outcome) ==
    /\ WAt(w, "fetch")
    /\ LET sid == workers[w].session_id
           config == workers[w].config
           idx == workers[w].idx
           symbol == config.Assets[idx]
       IN IF outcome = "ok"
          THEN /\ workers' = [workers EXCEPT ![w].pc = AfterSymbol(config, idx + 1),
                                             ![w].idx = idx + 1,
                                             ![w].results = @ \cup {symbol}]
               /\ objs' = push_event(sessions, objs, sid, "asset_update")
          ELSE /\ workers' = [workers EXCEPT ![w].pc = AfterSymbol(config, idx + 1),
                                             ![w].idx = idx + 1]
               /\ objs' = push_event(sessions, objs, sid, "log_error")
    /\ UNCHANGED <<sessions, reqs, now, nreq, hist, qhist>>

\* the fetch returns a column-based dict whose lists differ in length:
\* parse_ohlc hands them on, an indicator indexes past the shorter list and the
\* IndexError, caught nowhere in screener_loop, ends the thread
WorkerCrash(w) ==
    /\ WAt(w, "fetch")
    /\ Exit(w)
    /\ UNCHANGED <<sessions, objs, reqs, now, nreq, resetClean, qhist>>

\* session["data"] = results; cycle_complete; the countdown length is computed
\* from the time now_ts at which the cycle ends, k seconds before a boundary
WorkerCycleEnd(w, k) ==
    /\ WAt(w, "cycle_end")
    /\ LET s == workers[w].session
           sid == workers[w].session_id
           timeframe_mins == workers[w].config.Timeframe
           interval_seconds == timeframe_mins * 60
           now_ts == ((now \div interval_seconds) + 1) * interval_seconds - k
       IN /\ objs' = push_event(sessions, [objs EXCEPT ![s].data = workers[w].results],
                                sid, "cycle_complete")
          /\ workers' = [workers EXCEPT ![w].pc = "countdown",
                                        ![w].i = sleep_seconds(now_ts, timeframe_mins)]
    /\ UNCHANGED <<sessions, reqs, now, nreq, hist, qhist>>

\* for i in range(sleep_seconds, 0, -1): if not running: return; countdown;
\* sleep(1).  After the last second "Checking for updates..." is logged.
WorkerCountdown(w) ==
    /\ WAt(w, "countdown")
    /\ LET s == workers[w].session
           sid == workers[w].session_id
           i == workers[w].i
           counted == IF i % 5 = 0 \/ i <= 10
                      THEN push_event(sessions, objs, sid, "countdown")
                      ELSE objs
       IN IF ~objs[s].running
          THEN /\ Exit(w)
               /\ objs' = objs
          ELSE IF i = 1
          THEN /\ workers' = [workers EXCEPT ![w].i = 0, ![w].pc = "loop"]
               /\ objs' = push_event(sessions, counted, sid, "log_info")
               /\ UNCHANGED stopSeen
          ELSE /\ workers' = [workers EXCEPT ![w].i = i - 1]
               /\ objs' = counted
               /\ UNCHANGED stopSeen
    /\ UNCHANGED <<sessions, reqs, now, nreq, resetClean, qhist>>

\* ------------------------------------------------------------ the service
Init ==
    /\ sessions = [sid \in SessionIds |-> 0]
    /\ objs = << >>
    /\ reqs = [r \in ReqSlots |-> IdleReq]
    /\ workers = [w \in WorkerSlots |-> NoWorker]
    /\ now = BootTime
    /\ nreq = 0
    /\ stopSeen = {}
    /\ resetClean = {}
    /\ out = << >>
    /\ yielded = [kind |-> "none", flip |-> FALSE]
    /\ npush = 0
    /\ waited = 0
    /\ file = NoFile
    /\ market_data = EmptyCache
    /\ main_timeframe = 15
    /\ mpc = "config"
    /\ midx = 0
    /\ refreshed_count = 0
    /\ cycle = 0
    /\ cached_asset = Absent
    /\ attempts = << >>
    /\ computed = << >>
    /\ saved = FALSE
    /\ args = NoArgs
    /\ ret = NoRet

\* One client: every request of the run names the same session id.
Client == {"A"}

Next ==
    \/ \E sid \in Client, cfg \in Configs : nreq < MaxRequests /\ StartGet(sid, cfg)
    \/ \E r \in ReqSlots : StartActive(r)
    \/ \E r \in ReqSlots : StartCheck(r)
    \/ \E r \in ReqSlots : StartSpawn(r)
    \/ \E sid \in Client : nreq < MaxRequests /\ StopGet(sid)
    \/ \E r \in ReqSlots : StopRun(r)
    \/ \E r \in ReqSlots : StopActive(r)
    \/ \E sid \in Client : nreq < MaxRequests /\ ResetGet(sid)
    \/ \E r \in ReqSlots : ResetRun(r)
    \/ \E r \in ReqSlots : ResetClear(r)
    \/ \E w \in WorkerSlots : WorkerBegin(w)
    \/ \E w \in WorkerSlots : WorkerLoop(w)
    \/ \E w \in WorkerSlots : WorkerSymbol(w)
    \/ \E w \in WorkerSlots, outcome \in {"ok", "nofetch", "noparse"} : WorkerFetch(w, outcome)
    \/ \E w \in WorkerSlots : WorkerCrash(w)
    \/ \E w \in WorkerSlots, k \in 1..MaxCountdown : WorkerCycleEnd(w, k)
    \/ \E w \in WorkerSlots : WorkerCountdown(w)
    \/ cleanup_sessions
    \/ Tick

Spec == Init /\ [][Next]_vars

\* Two clients, no sweep and no passage of time.
NextPair ==
    \/ \E sid \in SessionIds, cfg \in Configs : nreq < MaxPairRequests /\ StartGet(sid, cfg)
    \/ \E r \in ReqSlots : StartActive(r)
    \/ \E r \in ReqSlots : StartCheck(r)
    \/ \E r \in ReqSlots : StartSpawn(r)
    \/ \E sid \in SessionIds : nreq < MaxPairRequests /\ StopGet(sid)
    \/ \E r \in ReqSlots : StopRun(r)
    \/ \E r \in ReqSlots : StopActive(r)
    \/ \E sid \in SessionIds : nreq < MaxPairRequests /\ ResetGet(sid)
    \/ \E r \in ReqSlots : ResetRun(r)
    \/ \E r \in ReqSlots : ResetClear(r)
    \/ \E w \in WorkerSlots : WorkerBegin(w)
    \/ \E w \in WorkerSlots : WorkerLoop(w)
    \/ \E w \in WorkerSlots : WorkerSymbol(w)
    \/ \E w \in WorkerSlots, outcome \in {"ok", "nofetch", "noparse"} : WorkerFetch(w, outcome)
    \/ \E w \in WorkerSlots : WorkerCrash(w)
    \/ \E w \in WorkerSlots, k \in 1..MaxCountdown : WorkerCycleEnd(w, k)
    \/ \E w \in WorkerSlots : WorkerCountdown(w)

SpecPair == Init /\ [][NextPair]_vars
\* ------------------------------------------------------------ the stream and the sweep
\* One client whose page holds a /stream connection while it starts and stops
\* its screener, with the sweeper running and time passing.
NextStream ==
    \/ \E sid \in Client : nreq < MaxStreamRequests /\ StreamGet(sid)
    \/ \E r \in ReqSlots : StreamActive(r)
    \/ \E r \in ReqSlots : StreamRead(r)
    \/ \E r \in ReqSlots : StreamHeartbeat(r)
    \/ \E r \in ReqSlots : StreamClose(r)
    \/ \E sid \in Client : nreq < MaxStreamRequests /\ StartGet(sid, CfgOne)
    \/ \E r \in ReqSlots : StartActive(r)
    \/ \E r \in ReqSlots : StartCheck(r)
    \/ \E r \in ReqSlots : StartSpawn(r)
    \/ \E sid \in Client : nreq < MaxStreamRequests /\ StopGet(sid)
    \/ \E r \in ReqSlots : StopRun(r)
    \/ \E r \in ReqSlots : StopActive(r)
    \/ \E w \in WorkerSlots : WorkerBegin(w)
    \/ \E w \in WorkerSlots : WorkerLoop(w)
    \/ \E w \in WorkerSlots : WorkerSymbol(w)
    \/ \E w \in WorkerSlots, outcome \in {"ok", "nofetch", "noparse"} : WorkerFetch(w, outcome)
    \/ \E w \in WorkerSlots : WorkerCrash(w)
    \/ \E w \in WorkerSlots, k \in 1..MaxCountdown : WorkerCycleEnd(w, k)
    \/ \E w \in WorkerSlots : WorkerCountdown(w)
    \/ cleanup_sessions
    \/ Tick

SpecStream == Init /\ [][NextStream]_vars

\* ------------------------------------------------------------ the event queue
\* One session with its stream consumer connected (the state StreamGet and
\* StreamActive of GET /stream?session_id=A lead to), a producer that calls
\* push_event with numbered events, and the seconds q.get spends blocked.
InitQueue ==
    /\ sessions = [sid \in SessionIds |-> IF sid = "A" THEN 1 ELSE 0]
    /\ objs = <<[NewSession EXCEPT !.last_active = BootTime]>>
    /\ reqs = [r \in ReqSlots |->
                 IF r = "r1"
                 THEN [op |-> "stream", pc |-> "read", session_id |-> "A",
                       config |-> NoConfig, session |-> 1]
                 ELSE IdleReq]
    /\ workers = [w \in WorkerSlots |-> NoWorker]
    /\ now = BootTime
    /\ nreq = 1
    /\ stopSeen = {}
    /\ resetClean = {}
    /\ out = << >>
    /\ yielded = [kind |-> "none", flip |-> FALSE]
    /\ npush = 0
    /\ waited = 0
    /\ file = NoFile
    /\ market_data = EmptyCache
    /\ main_timeframe = 15
    /\ mpc = "config"
    /\ midx = 0
    /\ refreshed_count = 0
    /\ cycle = 0
    /\ cached_asset = Absent
    /\ attempts = << >>
    /\ computed = << >>
    /\ saved = FALSE
    /\ args = NoArgs
    /\ ret = NoRet

\* any caller of push_event(session_id, ...): the payload is the event's number
Produce(session_id) ==
    /\ npush < MaxPush
    /\ objs' = push_event(sessions, objs, session_id, npush + 1)
    /\ npush' = npush + 1
    /\ UNCHANGED <<sessions, reqs, workers, now, nreq, hist, out, yielded, waited, single>>

\* yield f"data: {data}\n\n"
QRead(r) ==
    /\ q_get(r)
    /\ out' = Append(out, Head(objs[reqs[r].session].queue))
    /\ yielded' = [kind |-> "event", flip |-> ~yielded.flip]
    /\ waited' = 0
    /\ UNCHANGED <<hist, npush, single>>

\* one more second of q.get(timeout=25) on an empty queue
QWait(r) ==
    /\ At(r, "stream", "read")
    /\ objs[reqs[r].session].queue = << >>
    /\ waited < HeartbeatTimeout
    /\ waited' = waited + 1
    /\ UNCHANGED <<sessions, objs, reqs, workers, now, nreq, hist, out, yielded, npush, single>>

\* except queue.Empty: yield the heartbeat
QBeat(r) ==
    /\ q_empty(r)
    /\ waited = HeartbeatTimeout
    /\ yielded' = [kind |-> "heartbeat", flip |-> ~yielded.flip]
    /\ waited' = 0
    /\ UNCHANGED <<hist, out, npush, single>>

NextQueue ==
    \/ Produce("A")
    \/ \E r \in ReqSlots : QRead(r)
    \/ \E r \in ReqSlots : QWait(r)
    \/ \E r \in ReqSlots : QBeat(r)
    \/ \E r \in ReqSlots : StreamClose(r)

SpecQueue == InitQueue /\ [][NextQueue]_vars

\* ------------------------------------------------------------ main()
\* The single process: each cycle loads the config and the cache, fetches the
\* symbols in order, saves the cache when a symbol was refreshed, and waits.
webstate == <<sessions, objs, reqs, workers, now, nreq, hist, out, yielded, npush, waited, calc>>

\* config = load_config(); ...; market_data = load_market_data(timeframe_mins)
MainLoad(tf) ==
    /\ mpc = "config"
    /\ cycle < MaxCycles
    /\ cycle' = cycle + 1
    /\ main_timeframe' = tf
    /\ market_data' = load_market_data(file, tf)
    /\ refreshed_count' = 0
    /\ midx' = 1
    /\ mpc' = "symbols"
    /\ attempts' = << >>
    /\ computed' = << >>
    /\ UNCHANGED <<file, cached_asset, saved, webstate>>

\* a fetch whose failure drops the symbol's entry
MainFetchDropping(outcome) ==
    /\ mpc = "symbols"
    /\ midx <= Len(MainAssets)
    /\ cached_asset' = market_data.entries[MainAssets[midx]]
    /\ IF outcome = "ok"
       THEN /\ market_data' = [market_data EXCEPT
                                  !.entries[MainAssets[midx]] = Fetched(main_timeframe, cycle)]
            /\ refreshed_count' = refreshed_count + 1
       ELSE /\ market_data' = [market_data EXCEPT !.entries[MainAssets[midx]] = Absent]
            /\ UNCHANGED refreshed_count
    /\ attempts' = Append(attempts, [symbol |-> MainAssets[midx], refreshed |-> outcome = "ok"])
    /\ mpc' = "compute"
    /\ UNCHANGED <<file, main_timeframe, midx, cycle, computed, saved, webstate>>

\* cached_asset = market_data.get(symbol, {}); now = time.time(); the fetch;
\* a fetch that parses replaces the entry and counts as refreshed, a failed
\* fetch or parse prints and leaves market_data alone
MainFetch(outcome) ==
    /\ mpc = "symbols"
    /\ midx <= Len(MainAssets)
    /\ cached_asset' = market_data.entries[MainAssets[midx]]
    /\ IF outcome = "ok"
       THEN /\ market_data' = [market_data EXCEPT
                                  !.entries[MainAssets[midx]] = Fetched(main_timeframe, cycle)]
            /\ refreshed_count' = refreshed_count + 1
       ELSE UNCHANGED <<market_data, refreshed_count>>
    /\ attempts' = Append(attempts, [symbol |-> MainAssets[midx], refreshed |-> outcome = "ok"])
    /\ mpc' = "compute"
    /\ UNCHANGED <<file, main_timeframe, midx, cycle, computed, saved, webstate>>

\* an indicator computation on the entry read before the fetch
MainComputeCached ==
    /\ mpc = "compute"
    /\ computed' = IF cached_asset.present
                   THEN Append(computed, [symbol |-> MainAssets[midx], entry |-> cached_asset,
                                          after |-> Len(attempts)])
                   ELSE computed
    /\ midx' = midx + 1
    /\ mpc' = "symbols"
    /\ UNCHANGED <<file, market_data, main_timeframe, refreshed_count, cycle, cached_asset,
                   attempts, saved, webstate>>

\* current_asset_data = market_data.get(symbol); no entry: continue; else the
\* indicators and alerts are computed from the entry's series
MainCompute ==
    /\ mpc = "compute"
    /\ LET current_asset_data == market_data.entries[MainAssets[midx]]
       IN computed' = IF current_asset_data.present
                      THEN Append(computed, [symbol |-> MainAssets[midx],
                                             entry |-> current_asset_data,
                                             after |-> Len(attempts)])
                      ELSE computed
    /\ midx' = midx + 1
    /\ mpc' = "symbols"
    /\ UNCHANGED <<file, market_data, main_timeframe, refreshed_count, cycle, cached_asset,
                   attempts, saved, webstate>>

\* save_market_data: the dict is written; a failure is logged and the file is
\* as it was (open failed) or not loadable any more (the write broke off)
save_market_data(f, data, written) ==
    IF written = "ok" THEN DictFile(data)
    ELSE IF written = "torn" THEN BadFile
    ELSE f

\* a cycle end that saves whatever was refreshed
MainSaveAlways(written) ==
    /\ mpc = "symbols"
    /\ midx > Len(MainAssets)
    /\ market_data' = [market_data EXCEPT !.meta = Tag(main_timeframe)]
    /\ file' = save_market_data(file, market_data', written)
    /\ saved' = TRUE
    /\ mpc' = "config"
    /\ UNCHANGED <<main_timeframe, midx, refreshed_count, cycle, cached_asset, attempts,
                   computed, webstate>>

\* if refreshed_count > 0: tag the cache and save it; then the countdown
MainSave(written) ==
    /\ mpc = "symbols"
    /\ midx > Len(MainAssets)
    /\ IF refreshed_count > 0
       THEN /\ market_data' = [market_data EXCEPT !.meta = Tag(main_timeframe)]
            /\ file' = save_market_data(file, market_data', written)
            /\ saved' = TRUE
       ELSE /\ UNCHANGED <<market_data, file>>
            /\ saved' = FALSE
    /\ mpc' = "config"
    /\ UNCHANGED <<main_timeframe, midx, refreshed_count, cycle, cached_asset, attempts,
                   computed, webstate>>

\* The file found at startup: none, an unreadable one, a dict this program
\* saved (entries of the tagged timeframe), or a dict without a tag.
StartFiles ==
    {NoFile, BadFile}
    \cup {DictFile([meta |-> Tag(t),
                    entries |-> [sym \in Symbols |-> IF sym \in have THEN Entry(t) ELSE Absent]]) :
             t \in Timeframes, have \in (SUBSET Symbols) \ {{}}}
    \cup {DictFile([meta |-> m, entries |-> e]) :
             m \in {NoMeta, NoTag}, e \in [Symbols -> Entries]}

InitCache ==
    /\ sessions = [sid \in SessionIds |-> 0]
    /\ objs = << >>
    /\ reqs = [r \in ReqSlots |-> IdleReq]
    /\ workers = [w \in WorkerSlots |-> NoWorker]
    /\ now = BootTime
    /\ nreq = 0
    /\ stopSeen = {}
    /\ resetClean = {}
    /\ out = << >>
    /\ yielded = [kind |-> "none", flip |-> FALSE]
    /\ npush = 0
    /\ waited = 0
    /\ file \in StartFiles
    /\ market_data = EmptyCache
    /\ main_timeframe = 15
    /\ mpc = "config"
    /\ midx = 0
    /\ refreshed_count = 0
    /\ cycle = 0
    /\ cached_asset = Absent
    /\ attempts = << >>
    /\ computed = << >>
    /\ saved = FALSE
    /\ args = NoArgs
    /\ ret = NoRet

NextCache ==
    \/ \E tf \in Timeframes : MainLoad(tf)
    \/ \E outcome \in {"ok", "nofetch", "noparse"} : MainFetch(outcome)
    \/ MainCompute
    \/ \E written \in {"ok", "torn", "unwritten"} : MainSave(written)

SpecCache == InitCache /\ [][NextCache]_vars

\* ------------------------------------------------------------ alert composer
\* The stochastic block of both composers, entered with %K and %D computed.
\* Values are scaled: oscillator values and thresholds to Levels, prices and
\* the long EMA to Prices.
Levels == 0..3
Prices == 1..3
\* ema_long is None: calculate_ema had fewer prices than the period
NoEma == 0
Methods == {1, 2, 3}

PlainOverbought == "STOCH OVERBOUGHT"
PlainOversold == "STOCH OVERSOLD"
OversoldAboveEma == "STOCH OVERSOLD + Above EMA"
OverboughtBelowEma == "STOCH OVERBOUGHT + Below EMA"

StochArgs ==
    [fn : {"stoch"}, stoch_alert_method : Methods, stoch_k : Levels, stoch_d : Levels,
     stoch_overbought : Levels, stoch_oversold : Levels,
     ema_long : {NoEma} \cup Prices, current_price : Prices]

stoch_is_overbought(a) ==
    a.stoch_k > a.stoch_overbought \/ a.stoch_d > a.stoch_overbought
stoch_is_oversold(a) ==
    a.stoch_k < a.stoch_oversold \/ a.stoch_d < a.stoch_oversold

\* if overbought: ... elif oversold: ...
method_one(a) ==
    IF stoch_is_overbought(a) THEN {PlainOverbought}
    ELSE IF stoch_is_oversold(a) THEN {PlainOversold}
    ELSE {}

\* a gate that lets the plain oversold alert through below the EMA
main_stoch_alerts_ungated(a) ==
    IF a.stoch_alert_method = 1 THEN method_one(a)
    ELSE IF a.stoch_alert_method = 2
    THEN IF a.ema_long = NoEma THEN method_one(a)
         ELSE (IF stoch_is_oversold(a)
               THEN (IF a.current_price > a.ema_long
                     THEN {OversoldAboveEma} ELSE {PlainOversold})
               ELSE {})
              \cup
              (IF stoch_is_overbought(a) /\ a.current_price < a.ema_long
               THEN {OverboughtBelowEma} ELSE {})
    ELSE {}

\* main(): the notifications sent by the stochastic block
main_stoch_alerts(a) ==
    IF a.stoch_alert_method = 1 THEN method_one(a)
    ELSE IF a.stoch_alert_method = 2
    THEN IF a.ema_long = NoEma THEN method_one(a)
         ELSE (IF stoch_is_oversold(a) /\ a.current_price > a.ema_long
               THEN {OversoldAboveEma} ELSE {})
              \cup
              (IF stoch_is_overbought(a) /\ a.current_price < a.ema_long
               THEN {OverboughtBelowEma} ELSE {})
    ELSE {}

\* a fallback that tests oversold first
web_stoch_alerts_oversold_first(a) ==
    IF a.stoch_alert_method = 1 THEN method_one(a)
    ELSE IF a.stoch_alert_method = 2
    THEN IF a.ema_long = NoEma
         THEN (IF stoch_is_oversold(a) THEN {PlainOversold}
               ELSE IF stoch_is_overbought(a) THEN {PlainOverbought}
               ELSE {})
         ELSE IF stoch_is_oversold(a) /\ a.current_price > a.ema_long
         THEN {OversoldAboveEma}
         ELSE IF stoch_is_overbought(a) /\ a.current_price < a.ema_long
         THEN {OverboughtBelowEma}
         ELSE {}
    ELSE {}

\* an elif on the oscillator alone: oversold shuts the overbought branch
web_stoch_alerts_exclusive(a) ==
    IF a.stoch_alert_method = 1 THEN method_one(a)
    ELSE IF a.stoch_alert_method = 2
    THEN IF a.ema_long = NoEma THEN method_one(a)
         ELSE IF stoch_is_oversold(a)
         THEN (IF a.current_price > a.ema_long THEN {OversoldAboveEma} ELSE {})
         ELSE IF stoch_is_overbought(a) /\ a.current_price < a.ema_long
         THEN {OverboughtBelowEma}
         ELSE {}
    ELSE {}

\* screener_loop: the alerts appended by the stochastic block
\* (if is_os and price > ema: ... elif is_ob and price < ema: ...)
web_stoch_alerts(a) ==
    IF a.stoch_alert_method = 1 THEN method_one(a)
    ELSE IF a.stoch_alert_method = 2
    THEN IF a.ema_long = NoEma THEN method_one(a)
         ELSE IF stoch_is_oversold(a) /\ a.current_price > a.ema_long
         THEN {OversoldAboveEma}
         ELSE IF stoch_is_overbought(a) /\ a.current_price < a.ema_long
         THEN {OverboughtBelowEma}
         ELSE {}
    ELSE {}

Quiet ==
    <<sessions, objs, reqs, workers, now, nreq, hist, out, yielded, npush, waited,
      file, market_data, main_timeframe, mpc, midx, refreshed_count, mhist>>

InitAlerts ==
    /\ sessions = [sid \in SessionIds |-> 0]
    /\ objs = << >>
    /\ reqs = [r \in ReqSlots |-> IdleReq]
    /\ workers = [w \in WorkerSlots |-> NoWorker]
    /\ now = BootTime
    /\ nreq = 0
    /\ stopSeen = {}
    /\ resetClean = {}
    /\ out = << >>
    /\ yielded = [kind |-> "none", flip |-> FALSE]
    /\ npush = 0
    /\ waited = 0
    /\ file = NoFile
    /\ market_data = EmptyCache
    /\ main_timeframe = 15
    /\ mpc = "config"
    /\ midx = 0
    /\ refreshed_count = 0
    /\ cycle = 0
    /\ cached_asset = Absent
    /\ attempts = << >>
    /\ computed = << >>
    /\ saved = FALSE
    /\ args \in StochArgs
    /\ ret = [fn |-> "stoch", main_done |-> FALSE, main |-> {}, web_done |-> FALSE, web |-> {}]

\* the single process composes the alerts of the symbol
MainAlerts ==
    /\ args.fn = "stoch"
    /\ ~ret.main_done
    /\ ret' = [ret EXCEPT !.main_done = TRUE, !.main = main_stoch_alerts(args)]
    /\ UNCHANGED <<args, Quiet>>

\* a session's worker composes the alerts of the symbol
WebAlerts ==
    /\ args.fn = "stoch"
    /\ ~ret.web_done
    /\ ret' = [ret EXCEPT !.web_done = TRUE, !.web = web_stoch_alerts(args)]
    /\ UNCHANGED <<args, Quiet>>

NextAlerts == MainAlerts \/ WebAlerts

SpecAlerts == InitAlerts /\ [][NextAlerts]_vars

\* ------------------------------------------------------------ the wait
\* The end-of-cycle wait of main() and of screener_loop (the same statements):
\* now_ts = int(time.time()); sleep_seconds as above; the countdown loop then
\* sleeps one second sleep_seconds times.
WaitArgs == [fn : {"wait"}, now_ts : 0..MaxNow, timeframe_mins : {1, 2}]

InitWait ==
    /\ sessions = [sid \in SessionIds |-> 0]
    /\ objs = << >>
    /\ reqs = [r \in ReqSlots |-> IdleReq]
    /\ workers = [w \in WorkerSlots |-> NoWorker]
    /\ now = BootTime
    /\ nreq = 0
    /\ stopSeen = {}
    /\ resetClean = {}
    /\ out = << >>
    /\ yielded = [kind |-> "none", flip |-> FALSE]
    /\ npush = 0
    /\ waited = 0
    /\ file = NoFile
    /\ market_data = EmptyCache
    /\ main_timeframe = 15
    /\ mpc = "config"
    /\ midx = 0
    /\ refreshed_count = 0
    /\ cycle = 0
    /\ cached_asset = Absent
    /\ attempts = << >>
    /\ computed = << >>
    /\ saved = FALSE
    /\ args \in WaitArgs
    /\ ret = [fn |-> "wait", done |-> FALSE, sleep_seconds |-> 0]

Countdown ==
    /\ args.fn = "wait"
    /\ ~ret.done
    /\ ret' = [ret EXCEPT !.done = TRUE,
                          !.sleep_seconds = sleep_seconds(args.now_ts, args.timeframe_mins)]
    /\ UNCHANGED <<args, Quiet>>

NextWait == Countdown

SpecWait == InitWait /\ [][NextWait]_vars

\* ------------------------------------------------------------ trend classifier
\* Exact arithmetic on fractions n/d with d > 0 stands for the floats.
Frac(n, d) == [n |-> n, d |-> d]
FLt(a, b) == a.n * b.d < b.n * a.d
FGe(a, b) == ~FLt(a, b)
FGt(a, b) == FLt(b, a)
FNeg(a) == Frac(0 - a.n, a.d)
FAbs(a) == IF a.n < 0 THEN FNeg(a) ELSE a
FMul(a, b) == Frac(a.n * b.n, a.d * b.d)
FMin(a, b) == IF FLt(b, a) THEN b ELSE a
FMax(a, b) == IF FGt(b, a) THEN b ELSE a
FZero == Frac(0, 1)
FOne == Frac(1, 1)

Sum(seq) ==
    LET S[i \in 0..Len(seq)] == IF i = 0 THEN 0 ELSE S[i - 1] + seq[i]
    IN S[Len(seq)]
Abs(v) == IF v < 0 THEN 0 - v ELSE v
Max3(a, b, c) == IF a >= b /\ a >= c THEN a ELSE IF b >= c THEN b ELSE c
\* seq[-k:]
Last(seq, k) == [i \in 1..k |-> seq[Len(seq) - k + i]]

\* (None, None, None)
NoFit == [none |-> TRUE, slope |-> FZero, r_squared |-> FZero]

\* calculate_linear_regression: the least-squares line through
\* (0, y[0]) .. (length-1, y[length-1]), y the last length closes, and
\* R^2 = 1 - ss_res / ss_tot, 0 when ss_tot == 0
calculate_linear_regression(closes, length) ==
    IF Len(closes) < length THEN NoFit
    ELSE
    LET y == Last(closes, length)
        x == [i \in 1..length |-> i - 1]
        Sx == Sum(x)
        Sy == Sum(y)
        Sxx == Sum([i \in 1..length |-> x[i] * x[i]])
        Sxy == Sum([i \in 1..length |-> x[i] * y[i]])
        Dxx == length * Sxx - Sx * Sx
        Nxy == length * Sxy - Sx * Sy
        D == length * Dxx
        \* (y[i] - y_pred[i]) * D
        res == [i \in 1..length |-> y[i] * D - (Nxy * length * x[i] + Sy * Dxx - Nxy * Sx)]
        ss_res == Sum([i \in 1..length |-> res[i] * res[i]])
        \* (y[i] - mean(y)) * length
        dev == [i \in 1..length |-> length * y[i] - Sy]
        ss_tot == Sum([i \in 1..length |-> dev[i] * dev[i]])
    IN [none |-> FALSE,
        slope |-> Frac(Nxy, Dxx),
        r_squared |-> IF ss_tot = 0 THEN FZero
                      ELSE Frac(ss_tot * D * D - ss_res * length * length, ss_tot * D * D)]

\* compute_atr_series: true ranges from index 1, an SMA seed, Wilder smoothing
compute_atr_series(highs, lows, closes, period) ==
    IF Len(closes) < period + 1 THEN << >>
    ELSE
    LET true_ranges == [i \in 1..(Len(closes) - 1) |->
                           Max3(highs[i + 1] - lows[i + 1],
                                Abs(highs[i + 1] - closes[i]),
                                Abs(lows[i + 1] - closes[i]))]
        seed == Frac(Sum(SubSeq(true_ranges, 1, period)), period)
        A[k \in 1..(Len(true_ranges) - period + 1)] ==
            IF k = 1 THEN seed
            ELSE Frac(A[k - 1].n * (period - 1) + true_ranges[period + k - 1] * A[k - 1].d,
                      A[k - 1].d * period)
    IN [k \in 1..(Len(true_ranges) - period + 1) |-> A[k]]

FAdd(a, b) == Frac(a.n * b.d + b.n * a.d, a.d * b.d)
FSum(seq) ==
    LET S[i \in 0..Len(seq)] == IF i = 0 THEN FZero ELSE FAdd(S[i - 1], seq[i])
    IN S[Len(seq)]

\* return None
NoTrend ==
    [none |-> TRUE, normalized_slope |-> FZero, r_squared |-> FZero,
     volatility_regime |-> "N/A", trend |-> "None", confidence |-> FZero]

\* a classifier that tests the trend branches before the sideways branch
decide_trend_first(normalized_slope, r_squared, c) ==
    IF FGt(normalized_slope, c.slope_threshold) /\ FGe(r_squared, c.r2_threshold)
    THEN "Uptrend"
    ELSE IF FLt(normalized_slope, FNeg(c.slope_threshold)) /\ FGe(r_squared, c.r2_threshold)
    THEN "Downtrend"
    ELSE "Sideways"

\* the if / elif / elif / else of the trend classification
decide(normalized_slope, r_squared, c) ==
    IF FLt(FAbs(normalized_slope), c.sideways_slope_threshold) \/ FLt(r_squared, c.r2_threshold)
    THEN "Sideways"
    ELSE IF FGt(normalized_slope, c.slope_threshold) /\ FGe(r_squared, c.r2_threshold)
    THEN "Uptrend"
    ELSE IF FLt(normalized_slope, FNeg(c.slope_threshold)) /\ FGe(r_squared, c.r2_threshold)
    THEN "Downtrend"
    ELSE "Sideways"

\* classify_trend(closes, highs, lows, lr_config).  current_atr < 1e-12 is
\* current_atr = 0 here: a non-zero ATR of integer prices is far above 1e-12.
classify_trend(closes, highs, lows, lr_config) ==
    LET fit == calculate_linear_regression(closes, lr_config.length)
        atr_series == compute_atr_series(highs, lows, closes, lr_config.atr_length)
    IN IF fit.none THEN NoTrend
       ELSE IF atr_series = << >> THEN NoTrend
       ELSE
       LET current_atr == atr_series[Len(atr_series)]
           volatility_ma_length == lr_config.volatility_ma_length
       IN IF current_atr.n = 0 THEN NoTrend
          ELSE
          LET normalized_slope == Frac(fit.slope.n * current_atr.d, fit.slope.d * current_atr.n)
              atr_ma == FMul(FSum(Last(atr_series, volatility_ma_length)),
                             Frac(1, volatility_ma_length))
              abs_norm_slope == FAbs(normalized_slope)
          IN [none |-> FALSE,
              normalized_slope |-> normalized_slope,
              r_squared |-> fit.r_squared,
              volatility_regime |->
                  IF Len(atr_series) >= volatility_ma_length
                  THEN (IF FGt(current_atr, atr_ma) THEN "HIGH" ELSE "LOW")
                  ELSE "N/A",
              trend |-> decide(normalized_slope, fit.r_squared, lr_config),
              confidence |-> FMax(FZero, FMin(FOne,
                                 FMul(fit.r_squared, FMin(abs_norm_slope, FOne))))]

\* Candle series of CandleCount candles with small integer prices: the highs
\* lie up above the closes and the lows dn below them.
Closes == [1..CandleCount -> 1..3]
\* thresholds in halves
Thresholds == {Frac(0 - 1, 2), Frac(0, 2), Frac(1, 2)}
LrConfigs ==
    [length : 2..(CandleCount + 1), atr_length : 1..2,
     r2_threshold : Thresholds, slope_threshold : Thresholds,
     sideways_slope_threshold : Thresholds, volatility_ma_length : 1..2]
TrendArgs ==
    {[fn |-> "trend", closes |-> c,
      highs |-> [i \in 1..CandleCount |-> c[i] + up],
      lows |-> [i \in 1..CandleCount |-> c[i] - dn],
      lr_config |-> cfg] :
        c \in Closes, up \in {0, 1}, dn \in {0, 1}, cfg \in LrConfigs}

InitTrend ==
    /\ sessions = [sid \in SessionIds |-> 0]
    /\ objs = << >>
    /\ reqs = [r \in ReqSlots |-> IdleReq]
    /\ workers = [w \in WorkerSlots |-> NoWorker]
    /\ now = BootTime
    /\ nreq = 0
    /\ stopSeen = {}
    /\ resetClean = {}
    /\ out = << >>
    /\ yielded = [kind |-> "none", flip |-> FALSE]
    /\ npush = 0
    /\ waited = 0
    /\ file = NoFile
    /\ market_data = EmptyCache
    /\ main_timeframe = 15
    /\ mpc = "config"
    /\ midx = 0
    /\ refreshed_count = 0
    /\ cycle = 0
    /\ cached_asset = Absent
    /\ attempts = << >>
    /\ computed = << >>
    /\ saved = FALSE
    /\ args \in TrendArgs
    /\ ret = [fn |-> "trend", done |-> FALSE, result |-> NoTrend]

\* lr_result = classify_trend(prices, highs, lows, lr_config)
ClassifyTrend ==
    /\ args.fn = "trend"
    /\ ~ret.done
    /\ ret' = [ret EXCEPT !.done = TRUE,
                          !.result = classify_trend(args.closes, args.highs,
                                                    args.lows, args.lr_config)]
    /\ UNCHANGED <<args, Quiet>>

NextTrend == ClassifyTrend

SpecTrend == InitTrend /\ [][NextTrend]_vars

\* ------------------------------------------------------------ kline parsing
\* A raw value of a kline response: Unparsable is one float() rejects.
Unparsable == 0
RawValues == {Unparsable, 1}
RowKeys == {"long", "short", "other"}
RawLists == UNION {[1..n -> RawValues] : n \in 0..MaxRows}
RawRow == [keys : RowKeys, high : RawValues, low : RawValues, close : RawValues]
RawRowLists == UNION {[1..n -> RawRow] : n \in 0..MaxRows}

\* data["data"] of a kline response: a column-based dict, a list of row dicts,
\* or anything else (a dict without the three lists, a list of lists).
ColumnsData(h, l, c) == [fmt |-> "columns", high |-> h, low |-> l, close |-> c, rows |-> << >>]
RowsData(rows) == [fmt |-> "rows", high |-> << >>, low |-> << >>, close |-> << >>, rows |-> rows]
OtherData == [fmt |-> "other", high |-> << >>, low |-> << >>, close |-> << >>, rows |-> << >>]

\* the result of parse_ohlc
NoOhlc == [none |-> TRUE, highs |-> << >>, lows |-> << >>, closes |-> << >>]
Ohlc(h, l, c) == [none |-> FALSE, highs |-> h, lows |-> l, closes |-> c]

\* [float(p) for p in xs] raises when float() rejects one p
Floats(xs) == \A i \in 1..Len(xs) : xs[i] # Unparsable

parse_ohlc(kline_data) ==
    IF kline_data.fmt = "columns"
    THEN IF Floats(kline_data.high) /\ Floats(kline_data.low) /\ Floats(kline_data.close)
         THEN Ohlc(kline_data.high, kline_data.low, kline_data.close)
         ELSE NoOhlc
    ELSE IF kline_data.fmt = "rows"
    THEN LET rows == kline_data.rows
             n == Len(rows)
             highs == [i \in 1..n |-> rows[i].high]
             lows == [i \in 1..n |-> rows[i].low]
             closes == [i \in 1..n |-> rows[i].close]
         IN  IF n = 0 THEN Ohlc(<< >>, << >>, << >>)
             ELSE IF rows[1].keys = "other" THEN NoOhlc
             ELSE IF /\ \A i \in 1..n : rows[i].keys = rows[1].keys
                     /\ Floats(highs) /\ Floats(lows) /\ Floats(closes)
                  THEN Ohlc(highs, lows, closes)
                  ELSE NoOhlc
    ELSE NoOhlc

\* raw_data = fetch_kline_data(...) that passed "if raw_data:"
ParseArgs ==
    {[fn |-> "parse", kline_data |-> d] :
        d \in {ColumnsData(h, l, c) : h \in RawLists, l \in RawLists, c \in RawLists}
              \cup {RowsData(rows) : rows \in RawRowLists \ {<< >>}}
              \cup {OtherData}}

InitParse ==
    /\ sessions = [sid \in SessionIds |-> 0]
    /\ objs = << >>
    /\ reqs = [r \in ReqSlots |-> IdleReq]
    /\ workers = [w \in WorkerSlots |-> NoWorker]
    /\ now = BootTime
    /\ nreq = 0
    /\ stopSeen = {}
    /\ resetClean = {}
    /\ out = << >>
    /\ yielded = [kind |-> "none", flip |-> FALSE]
    /\ npush = 0
    /\ waited = 0
    /\ file = NoFile
    /\ market_data = EmptyCache
    /\ main_timeframe = 15
    /\ mpc = "config"
    /\ midx = 0
    /\ refreshed_count = 0
    /\ cycle = 0
    /\ cached_asset = Absent
    /\ attempts = << >>
    /\ computed = << >>
    /\ saved = FALSE
    /\ args \in ParseArgs
    /\ ret = [fn |-> "parse", step |-> "raw", ohlc |-> NoOhlc]

\* highs, lows, closes = parse_ohlc(raw_data)
ParseOhlc ==
    /\ args.fn = "parse"
    /\ ret.step = "raw"
    /\ ret' = [ret EXCEPT !.step = "parsed", !.ohlc = parse_ohlc(args.kline_data)]
    /\ UNCHANGED <<args, Quiet>>

\* if closes: the series is stored in market_data[symbol] (main) or handed to
\* the indicators (screener_loop)
ParseStore ==
    /\ args.fn = "parse"
    /\ ret.step = "parsed"
    /\ ret.ohlc.closes # << >>
    /\ ret' = [ret EXCEPT !.step = "stored"]
    /\ UNCHANGED <<args, Quiet>>

\* else: "Failed to parse updated data."
ParseFail ==
    /\ args.fn = "parse"
    /\ ret.step = "parsed"
    /\ ret.ohlc.closes = << >>
    /\ ret' = [ret EXCEPT !.step = "failed"]
    /\ UNCHANGED <<args, Quiet>>

NextParse == ParseOhlc \/ ParseStore \/ ParseFail

SpecParse == InitParse /\ [][NextParse]_vars

\* ------------------------------------------------------------ claims
WorkersOf(sid) == {w \in WorkerSlots : Live(w) /\ workers[w].session_id = sid}

\* C1: for every session id at most one screener worker is live at any time.
C1_OneWorkerPerSession ==
    \A sid \in SessionIds : Cardinality(WorkersOf(sid)) <= 1

\* the worker is about to read session["running"]
Checkpoint(w) == WAt(w, "loop") \/ WAt(w, "symbol") \/ WAt(w, "countdown")

\* C2: once a stop (or reset) has cleared the running flag under a worker, the
\* worker exits at the next checkpoint it reaches.
C2_StopExitsAtCheckpoint ==
    [][\A w \in WorkerSlots :
          (w \in stopSeen /\ Checkpoint(w) /\ workers'[w] # workers[w])
              => workers'[w].pc = "none"]_vars

\* C3: after reset returned, and until the next start, the session's cached
\* results are empty.
C3_ResetStaysEmpty ==
    \A s \in resetClean : objs[s].data = {}

\* what start must leave alone on a running session: all but last_active
SameButActive(a, b) == [a EXCEPT !.last_active = 0] = [b EXCEPT !.last_active = 0]

\* C4: a start request that finds its session running changes neither the
\* session's config, data, running flag, queue nor any worker: its steps up to
\* the test of the flag stamp last_active only, and the test returns.
C4_StartWhenRunningIsNoOp ==
    [][\A r \in ReqSlots :
          LET s == reqs[r].session IN
          (/\ reqs[r].op = "start"
           /\ reqs[r].pc \in {"active", "check"}
           /\ objs[s].running
           /\ reqs'[r] # reqs[r])
              => /\ SameButActive(objs'[s], objs[s])
                 /\ workers' = workers
                 /\ reqs[r].pc = "check" => reqs'[r] = IdleReq /\ objs' = objs]_vars

\* a start carrying another config has stamped last_active and is about to
\* test the flag of a running session
C4_Witness ==
    \E r \in ReqSlots :
        /\ At(r, "start", "check")
        /\ objs[reqs[r].session].running
        /\ objs[reqs[r].session].config # reqs[r].config
        /\ objs[reqs[r].session].last_active = now
        /\ WorkersOf(reqs[r].session_id) # {}

\* C5: the sweep removes a registry entry only when the session is not running,
\* idle beyond the limit, and not in the hands of a start request.
C5_SweepOnlyIdle ==
    [][\A sid \in SessionIds :
          (sessions[sid] # 0 /\ sessions'[sid] = 0)
              => /\ ~objs[sessions[sid]].running
                 /\ objs[sessions[sid]].last_active < now - IdleLimit
                 /\ StartsOn(sessions[sid]) = {}]_vars

\* a thread working for session id a takes the step
ActsFor(a) ==
    \/ \E r \in ReqSlots :
          reqs'[r] # reqs[r] /\ (reqs[r].session_id = a \/ reqs'[r].session_id = a)
    \/ \E w \in WorkerSlots :
          workers'[w] # workers[w]
              /\ (workers[w].session_id = a \/ workers'[w].session_id = a)

\* C9: a step for session a leaves every other session's entry and object
\* unchanged, and any queue it adds to is the one registered under a.
C9_SessionsIndependent ==
    [][\A a \in SessionIds :
          ActsFor(a) =>
              /\ \A b \in SessionIds \ {a} :
                    /\ sessions'[b] = sessions[b]
                    /\ sessions[b] # 0 => objs'[sessions[b]] = objs[sessions[b]]
              /\ \A o \in 1..Len(objs) :
                    objs'[o].queue # objs[o].queue => sessions'[a] = o]_vars

\* both sessions run, and both workers have pushed their events
C9_Witness ==
    /\ \A sid \in SessionIds :
          /\ sessions[sid] # 0
          /\ objs[sessions[sid]].running
          /\ objs[sessions[sid]].queue # << >>
          /\ WorkersOf(sid) # {}
    /\ sessions["A"] # sessions["B"]
Min(a, b) == IF a < b THEN a ELSE b
Increasing(q) == \A i, j \in 1..Len(q) : i < j => q[i] < q[j]
Queue(sid) == objs[sessions[sid]].queue

\* C6: every queue holds at most its capacity; a push is never blocked, and a
\* push to a full queue leaves the queue as it was.
C6_QueueBounded ==
    /\ [](\A o \in 1..Len(objs) : Len(objs[o].queue) <= QueueCap)
    /\ [](npush < MaxPush => ENABLED Produce("A"))
    /\ [][\A o \in 1..Len(objs) :
             (Len(objs[o].queue) = QueueCap /\ npush' # npush)
                 => objs'[o].queue = objs[o].queue]_vars

\* the queue is full and pushes have been dropped
C6_Witness ==
    /\ Len(Queue("A")) = QueueCap
    /\ npush > QueueCap + Len(out)

\* C7: with no consumer read so far the queue holds the earliest-pushed events
\* in push order (the newest excess is dropped); the consumer reads events in
\* push order, each at most once.
C7_DropNewestKeepOrder ==
    /\ out = << >> => Queue("A") = [n \in 1..Min(npush, QueueCap) |-> n]
    /\ Increasing(out \o Queue("A"))
    /\ \A n \in 1..Len(out) : out[n] \in 1..npush

\* more events pushed than the queue holds before the first read, then reads
C7_Witness ==
    /\ Len(out) = QueueCap
    /\ out = [n \in 1..QueueCap |-> n]
    /\ npush > QueueCap

\* C8: once the timeout has run out the consumer yields; a yield is the head of
\* the queue, or a heartbeat when the queue stayed empty for the whole timeout;
\* after a yield the consumer is reading again.
C8_HeartbeatWhenSilent ==
    /\ [](waited <= HeartbeatTimeout)
    /\ [](\A r \in ReqSlots :
            (At(r, "stream", "read") /\ waited = HeartbeatTimeout)
                => ENABLED (QRead(r) \/ QBeat(r)))
    /\ [][\A r \in ReqSlots :
             (At(r, "stream", "read") /\ yielded'.flip # yielded.flip) =>
                 /\ At(r, "stream", "read")'
                 /\ \/ /\ yielded'.kind = "event"
                       /\ objs[reqs[r].session].queue # << >>
                       /\ out' = Append(out, Head(objs[reqs[r].session].queue))
                    \/ /\ yielded'.kind = "heartbeat"
                       /\ objs[reqs[r].session].queue = << >>
                       /\ waited = HeartbeatTimeout
                       /\ out' = out]_vars

\* a heartbeat was yielded after events had been delivered
C8_Witness ==
    /\ yielded.kind = "heartbeat"
    /\ out # << >>
    /\ \E r \in ReqSlots : At(r, "stream", "read")
\* main() has just loaded the cache for the cycle
JustLoaded == mpc = "symbols" /\ midx = 1

\* C10: a load under a timeframe other than the stored tag, or of a cache
\* without a tag, yields a cache with no entry at all; a load under the stored
\* tag returns every stored entry (and the tag) unchanged.
C10_LoadInvalidatesOnTimeframe ==
    JustLoaded =>
        IF file.kind = "dict" /\ file.data.meta = Tag(main_timeframe)
        THEN market_data = file.data
        ELSE /\ \A sym \in Symbols : market_data.entries[sym] = Absent
             /\ market_data = EmptyCache

\* a populated cache tagged with another timeframe, or with no tag, was loaded
C10_Witness ==
    /\ JustLoaded
    /\ file.kind = "dict"
    /\ file.data.meta # Tag(main_timeframe)
    /\ \A sym \in Symbols : file.data.entries[sym] # Absent
    /\ market_data = EmptyCache
\* the oversold condition of the claims, on the raw inputs
Oversold == args.stoch_k < args.stoch_oversold \/ args.stoch_d < args.stoch_oversold
Overbought == args.stoch_k > args.stoch_overbought \/ args.stoch_d > args.stoch_overbought
GatedByEma == args.fn = "stoch" /\ args.stoch_alert_method = 2 /\ args.ema_long # NoEma

\* method 2, long EMA computable, oversold: what a composer's alert set must be
OversoldGated(alerts) ==
    /\ PlainOversold \notin alerts
    /\ args.current_price > args.ema_long => OversoldAboveEma \in alerts
    /\ args.current_price <= args.ema_long => OversoldAboveEma \notin alerts

\* C11: method 2 with the long EMA computable: an oversold stochastic with the
\* price above the EMA gives the bullish composite alert and never the plain
\* oversold alert; at or below the EMA it gives no oversold alert of either kind.
C11_OversoldAboveEmaIsComposite ==
    (GatedByEma /\ Oversold) =>
        /\ ret.main_done => OversoldGated(ret.main)
        /\ ret.web_done => OversoldGated(ret.web)

\* both composers have answered an oversold stochastic above the long EMA
C11_Witness ==
    /\ GatedByEma /\ Oversold
    /\ args.current_price > args.ema_long
    /\ ret.main_done /\ ret.web_done
    /\ OversoldAboveEma \in ret.main
    /\ OversoldAboveEma \in ret.web

\* the alerts of method 1 on the inputs, overbought tested first
MethodOneAlerts ==
    IF Overbought THEN {PlainOverbought}
    ELSE IF Oversold THEN {PlainOversold}
    ELSE {}

\* C12: with the long EMA undefined, method 2 gives exactly the alerts of
\* method 1 for all %K, %D and thresholds: overbought wins, at most one alert.
C12_FallbackIsMethodOne ==
    (args.fn = "stoch" /\ args.stoch_alert_method = 2 /\ args.ema_long = NoEma) =>
        /\ ret.main_done =>
              /\ ret.main = MethodOneAlerts
              /\ ret.main = main_stoch_alerts([args EXCEPT !.stoch_alert_method = 1])
              /\ Cardinality(ret.main) <= 1
        /\ ret.web_done =>
              /\ ret.web = MethodOneAlerts
              /\ ret.web = web_stoch_alerts([args EXCEPT !.stoch_alert_method = 1])
              /\ Cardinality(ret.web) <= 1

\* the fallback answered inputs that are overbought and oversold at once
C12_Witness ==
    /\ args.fn = "stoch" /\ args.stoch_alert_method = 2 /\ args.ema_long = NoEma
    /\ Overbought /\ Oversold
    /\ ret.main_done /\ ret.web_done
    /\ ret.web = {PlainOverbought}

\* method 2, long EMA computable: each composite alert on its own condition
Independent(alerts) ==
    /\ OversoldAboveEma \in alerts <=> (Oversold /\ args.current_price > args.ema_long)
    /\ OverboughtBelowEma \in alerts <=> (Overbought /\ args.current_price < args.ema_long)

\* C18: method 2 with the long EMA computable: bullish composite iff oversold
\* and price > EMA, bearish composite iff overbought and price < EMA, each
\* whatever the other branch decides, in both composers, which so agree.
C18_BranchesIndependent ==
    GatedByEma =>
        /\ ret.main_done => Independent(ret.main)
        /\ ret.web_done => Independent(ret.web)
        /\ (ret.main_done /\ ret.web_done) => ret.main = ret.web

\* oversold and overbought at once below the EMA: the bearish alert alone
C18_Witness ==
    /\ GatedByEma
    /\ Oversold /\ Overbought
    /\ args.current_price < args.ema_long
    /\ ret.main_done /\ ret.web_done
    /\ ret.web = {OverboughtBelowEma}
\* ceil(a / b) for b > 0
Ceil(a, b) == (a + b - 1) \div b

\* C17: the wait lasts ceil(now / interval) * interval - now seconds, zero when
\* now is on a candle boundary.
C17_WaitUntilCeilBoundary ==
    (args.fn = "wait" /\ ret.done) =>
        LET interval == args.timeframe_mins * 60
        IN ret.sleep_seconds = Ceil(args.now_ts, interval) * interval - args.now_ts
ConstantCloses == \A i \in 1..Len(args.closes) : args.closes[i] = args.closes[1]

\* enough candles for the regression and for the ATR
EnoughHistory ==
    /\ Len(args.closes) >= args.lr_config.length
    /\ Len(args.closes) >= args.lr_config.atr_length + 1

\* C13: on a constant close series with enough history classify_trend returns
\* a result whose trend is Sideways, whatever the highs, lows and parameters.
C13_ConstantIsSideways ==
    (args.fn = "trend" /\ ret.done /\ ConstantCloses /\ EnoughHistory) =>
        /\ ~ret.result.none
        /\ ret.result.trend = "Sideways"

\* the trend the stated priority order gives for the result's slope and R^2
Priority ==
    LET ns == ret.result.normalized_slope
        r2 == ret.result.r_squared
        c == args.lr_config
    IN CASE FLt(FAbs(ns), c.sideways_slope_threshold) \/ FLt(r2, c.r2_threshold) -> "Sideways"
         [] FGt(ns, c.slope_threshold) /\ ~FLt(r2, c.r2_threshold) -> "Uptrend"
         [] FLt(ns, FNeg(c.slope_threshold)) /\ ~FLt(r2, c.r2_threshold) -> "Downtrend"
         [] OTHER -> "Sideways"

\* C19: every result's trend is the one the priority order Sideways / Uptrend /
\* Downtrend / Sideways gives for its normalized slope, R^2 and the thresholds;
\* it is one of the three labels and the confidence lies in [0, 1].
C19_TrendPriorityOrder ==
    (args.fn = "trend" /\ ret.done /\ ~ret.result.none) =>
        /\ ret.result.trend = Priority
        /\ ret.result.trend \in {"Sideways", "Uptrend", "Downtrend"}
        /\ FGe(ret.result.confidence, FZero)
        /\ FGe(FOne, ret.result.confidence)

\* a steep, well-fitted slope is Sideways because the sideways threshold
\* exceeds the slope threshold
C19_Witness ==
    /\ args.fn = "trend" /\ ret.done /\ ~ret.result.none
    /\ FGt(args.lr_config.sideways_slope_threshold, args.lr_config.slope_threshold)
    /\ FGt(ret.result.normalized_slope, args.lr_config.slope_threshold)
    /\ FGe(ret.result.r_squared, args.lr_config.r2_threshold)
    /\ ret.result.trend = "Sideways"
\* the fetch attempt of the step's symbol failed
FailedNow == attempts # << >> /\ ~attempts[Len(attempts)].refreshed

\* C14: a failed fetch or parse leaves the symbol's prior cache entry (and the
\* whole cache) unchanged; the computation is then skipped when there is no
\* prior entry and done on the prior, stale entry otherwise; either way the
\* loop moves on to the next symbol.
C14_FailureKeepsPriorEntry ==
    [][/\ (mpc = "symbols" /\ mpc' = "compute" /\ ~attempts'[Len(attempts')].refreshed) =>
            /\ market_data' = market_data
            /\ market_data'.entries[MainAssets[midx]] = cached_asset'
       /\ (mpc = "compute" /\ mpc' = "symbols" /\ FailedNow) =>
            /\ market_data' = market_data
            /\ market_data.entries[MainAssets[midx]] = cached_asset
            /\ ~cached_asset.present => computed' = computed
            /\ cached_asset.present =>
                  computed' = Append(computed, [symbol |-> MainAssets[midx],
                                                entry |-> cached_asset,
                                                after |-> Len(attempts)])
            /\ midx' = midx + 1]_vars

\* a fetch failed for a symbol that had an entry from an earlier cycle, and the
\* computation ran on that stale entry
C14_Witness ==
    /\ cycle > 1
    /\ mpc = "symbols"
    /\ FailedNow
    /\ computed # << >>
    /\ computed[Len(computed)].after = Len(attempts)
    /\ computed[Len(computed)].entry.last_updated > 0
    /\ computed[Len(computed)].entry.last_updated < cycle

C16_SaveIffRefreshed ==
    [][(mpc = "symbols" /\ mpc' = "config") =>
          /\ saved' <=> (\E j \in 1..Len(attempts) : attempts[j].refreshed)
          /\ (\A j \in 1..Len(attempts) : ~attempts[j].refreshed) => file' = file
          /\ (saved' /\ file'.kind = "dict" /\ file' # file) =>
                /\ file'.data.meta = Tag(main_timeframe)
                /\ file'.data.entries = market_data.entries]_vars

\* every fetch of a cycle failed under a timeframe other than the file's tag:
\* the cache in memory was wiped, the file still holds its entries and tag
C16_Witness ==
    /\ mpc = "config"
    /\ cycle > 0
    /\ ~saved
    /\ Len(attempts) = Len(MainAssets)
    /\ file.kind = "dict"
    /\ file.data.meta.tagged
    /\ file.data.meta.timeframe # main_timeframe
    /\ market_data = EmptyCache
\* every entry of the dict is of the timeframe t
EntriesOf(data, t) ==
    \A sym \in Symbols : data.entries[sym].present => data.entries[sym].candles = t

\* C25: every entry of a persisted cache that carries a timeframe tag was
\* fetched under that timeframe, and the entries main() holds after a load are
\* of the cycle's timeframe: no series is stored under, or read back with, the
\* tag of another timeframe.
C25_EntriesMatchTag ==
    /\ (file.kind = "dict" /\ file.data.meta.tagged) =>
          EntriesOf(file.data, file.data.meta.timeframe)
    /\ mpc # "config" => EntriesOf(market_data, main_timeframe)
    /\ (mpc = "config" /\ market_data.meta.tagged) =>
          EntriesOf(market_data, market_data.meta.timeframe)

\* the timeframe changed between two saving cycles: the file holds entries of
\* the new timeframe only, one of them fetched in the second cycle
C25_Witness ==
    /\ cycle > 1
    /\ mpc = "config"
    /\ saved
    /\ file.kind = "dict"
    /\ file.data.meta = Tag(60)
    /\ \E sym \in Symbols : file.data.entries[sym] = Fetched(60, cycle)
    /\ \E sym \in Symbols : ~file.data.entries[sym].present
\* C21: every candle series that parsing produces and that is stored in the
\* cache or handed to the indicators has len(highs) = len(lows) = len(closes),
\* for every accepted input format.
C21_SeriesSameLength ==
    (ret.fn = "parse" /\ ret.step = "stored") =>
        /\ Len(ret.ohlc.highs) = Len(ret.ohlc.closes)
        /\ Len(ret.ohlc.lows) = Len(ret.ohlc.closes)
\* worker w ends in this step
Ends(w) == workers[w].pc \notin {"none", "begin"} /\ workers'[w].pc = "none"

\* C22: the refresh scheduler has no terminal state: as long as the session's
\* running flag stays true the worker goes on, cycle after cycle, whatever the
\* fetches return; a worker ends only once its session's running flag is false.
C22_NoTerminalState ==
    [][\A w \in WorkerSlots : Ends(w) => ~objs[workers[w].session].running]_vars

\* the events this step appended to the queue of session object s
Pushed(s) ==
    {objs'[s].queue[i] : i \in (Len(objs[s].queue) + 1)..Len(objs'[s].queue)}

\* C23: every termination of a session's worker is announced: on each path by
\* which screener_loop ends (loop condition false, configuration missing, stop
\* observed at a symbol checkpoint or during the countdown) the worker pushes
\* status{running: false} as it ends, so that event is the last status it
\* pushes; a push is only lost when the session is unregistered or its queue full.
C23_TerminationAnnounced ==
    [][\A w \in WorkerSlots :
          (Ends(w) /\ workers[w].pc \in {"loop", "symbol", "countdown"}) =>
              LET s == sessions[workers[w].session_id] IN
              (s # 0 /\ Len(objs[s].queue) < QueueCap) => "status_false" \in Pushed(s)]_vars

\* the consumers connected to /stream for session id sid
Consumers(sid) == {r \in ReqSlots : At(r, "stream", "read") /\ reqs[r].session_id = sid}

\* C24: a consumer connected to /stream for session id S reads the queue of
\* the session registered under S: events pushed for S never sit in a
\* registered queue that no consumer of S reads while a consumer of S waits on
\* a queue that is no longer registered.
C24_ConsumerReadsRegisteredQueue ==
    \A sid \in SessionIds : \A r \in Consumers(sid) :
        LET s == sessions[sid] IN
        (/\ s # 0
         /\ reqs[r].session # s
         /\ \A c \in Consumers(sid) : reqs[c].session # s)
        => objs[s].queue = << >>
====
